---- MODULE Spec2Model ----
(***************************************************************************)
(* The /api/search pipeline (src/src/app/api/search/route.ts), its step    *)
(* ledger, and the client trace reducer (src/src/store/chatStore.ts).      *)
(*                                                                         *)
(* Text is modelled as a sequence of characters (one-character strings).   *)
(* A JavaScript value of type `string | undefined` that is undefined is    *)
(* the one-element sequence <<Undef>>; null is <<Null>>.  Neither token is *)
(* a character of the alphabet, so they never collide with text.           *)
(***************************************************************************)
EXTENDS Integers, Sequences, FiniteSets, TLC

\* ------------------------------------------------------------------ bounds
\* chunks the generation collaborator yields at most in one run
MaxFragments == 2
\* rows the retrieval collaborator returns at most
MaxMatches == 2

\* ------------------------------------------------------------------ values
Undef == "undefined"
Null == "null"

IsFalsyText(v) == v = <<Undef>> \/ v = <<Null>> \/ v = <<>>

\* JavaScript `v || d` on text
OrElse(v, d) == IF IsFalsyText(v) THEN d ELSE v

\* the request body's question: absent, empty, or a text
Questions == { <<Undef>>, <<>>, <<"a">> }

\* err.message of a collaborator failure (an Error, or a thrown non-Error)
ErrMessages == { <<Undef>>, <<"x">> }

\* chunk.choices?.[0]?.delta?.content of one streamed chunk
ChunkContents == { <<Undef>>, <<>>, <<"a">>, <<"\n", "b">> }

\* rows match_documents may return; similarity and score are optional
RowPool ==
    { [id |-> 1, document_id |-> 7, content |-> <<"c">>, similarity |-> 8],
      [id |-> 2, document_id |-> 7, content |-> <<"d", "\n">>, score |-> 5],
      [id |-> 3, document_id |-> 9, content |-> <<>>] }

RECURSIVE SeqsUpTo(_, _)
SeqsUpTo(S, n) ==
    IF n = 0 THEN { <<>> }
    ELSE LET shorter == SeqsUpTo(S, n - 1)
         IN shorter \cup { Append(s, x) : s \in shorter, x \in S }

MatchLists == SeqsUpTo(RowPool, MaxMatches)

\* the message of the TypeError controller.enqueue / controller.close throw
\* once the stream is no longer readable
EnqueueError == <<"i">>

\* step titles (the Chinese texts of route.ts, one wide character each)
TitleReceived == <<"W", "1">>
TitleEmbed == <<"W", "2">>
TitleRetrieve == <<"W", "3">>
TitleTool == <<"W", "4">>
TitleLlm == <<"W", "5">>
TitleError == <<"W", "6">>

\* step details
DetailNoResult == <<"z">>
DetailToolRunning == <<"v">>
UnknownError == <<"u">>
ServerError == <<"s">>
\* the canned no-result answer, line 162
noAns == <<"W", "0">>

Digit(n) == CASE n = 0 -> "0" [] n = 1 -> "1" [] n = 2 -> "2" [] n = 3 -> "3"
              [] n = 4 -> "4" [] n = 5 -> "5" [] n = 6 -> "6" [] n = 7 -> "7"
              [] n = 8 -> "8" [] n = 9 -> "9"

\* Number.prototype.toString / template interpolation of a non-negative integer
RECURSIVE NumToText(_)
NumToText(n) ==
    IF n < 10 THEN << Digit(n) >>
    ELSE Append(NumToText(n \div 10), Digit(n % 10))

\* A request member that should be a number: kind is "absent", "text" (any
\* JSON value that is not a number) or "number", and a number is held in
\* tenths, so that 0.5 is 5 and 20 is 200.
Param(kind, tenths) == [kind |-> kind, tenths |-> tenths]

\* topK of the request body: absent, not a number, negative, zero, between 0
\* and 1, 1, fractional, 20, just above 20, 21
TopKInputs ==
    { Param("absent", 0), Param("text", 0) }
        \cup { Param("number", t) : t \in { -10, 0, 5, 10, 37, 200, 205, 210 } }

\* threshold of the request body: absent, not a number, negative, 0, 0.4,
\* 0.7, 1, above 1
ThresholdInputs ==
    { Param("absent", 0), Param("text", 0) }
        \cup { Param("number", t) : t \in { -1, 0, 4, 7, 10, 11 } }

DefaultTopK == 5
MaxTopK == 20
\* 0.4 and 1, in tenths
DefaultThreshold == 4
MaxThreshold == 10

\* Math.floor of a number held in tenths, as a whole number
Floor(tenths) == tenths \div 10

\* lines 52-53; the result is a whole number
ClampTopK(k) ==
    IF k.kind = "number" /\ k.tenths > 0 /\ k.tenths <= MaxTopK * 10
    THEN Floor(k.tenths)
    ELSE DefaultTopK

\* lines 54-57; the result is in tenths
ClampThreshold(t) ==
    IF t.kind = "number" /\ t.tenths >= 0 /\ t.tenths <= MaxThreshold
    THEN t.tenths
    ELSE DefaultThreshold

\* Number.prototype.toString of a non-negative number held in tenths
TenthsToText(x) ==
    IF x % 10 = 0 THEN NumToText(x \div 10)
    ELSE NumToText(x \div 10) \o << ".", Digit(x % 10) >>

\* `topK=${safeTopK}, threshold=${safeThreshold}`, line 128
DetailParams(k, t) == << "k" >> \o NumToText(k) \o << "," >> \o TenthsToText(t)

DetailHits(n) == <<"h">> \o NumToText(n)
DetailToolDone(n) == <<"t">> \o NumToText(n)

\* ------------------------------------------------------------------ state
VARIABLES
    pc,                  \* position of POST / start() : the await it is parked at
    question,            \* the request's question
    history,             \* the request's history: "absent", "array", "malformed"
    topK,                \* the request's topK, line 41
    threshold,           \* the request's threshold, line 41
    safeTopK,            \* line 52, a whole number
    safeThreshold,       \* line 54, in tenths
    stream,              \* ReadableStream state: "none", "readable", "closed", "cancelled"
    response,            \* what POST returned: "none", "400", "stream"
    stepsLog,            \* line 66
    sourcesForLog,       \* line 67
    matchedCountForLog,  \* line 68
    answerForLog,        \* line 69
    currentContent,      \* line 238
    events,              \* objects enqueued on the stream, in order
    inserted,            \* rows handed to run_history insert, in order
    insertOutcome,       \* how the insert ended: "none", "ok", "error", "throw"
    calls,               \* collaborator and controller calls made, in order
    fragments,           \* chunks consumed from the completion stream so far
    rpcResult,           \* what match_documents returned: "none", "error", "null", "rows"
    failed               \* what has thrown in the try block, other than the stream's
                         \* controller: "none", "embed", "retrieve", "history",
                         \* "create", "chunks"

svars == << pc, question, history, topK, threshold, safeTopK, safeThreshold, stream, response, stepsLog, sourcesForLog,
            matchedCountForLog, answerForLog, currentContent, events, inserted,
            insertOutcome, calls, fragments, rpcResult, failed >>

\* the ledger operations taken on their own: the last two upserts applied to
\* the server ledger (stepsLog) and to the store's steps, each with its result
VARIABLES
    ledgerHist,          \* << [step, result], ... >> of upsertStepLog
    storeHist            \* << [step, result], ... >> of the store's step reducer

lvars == << ledgerHist, storeHist >>

\* useChatStore and the locals of sendMessage, chatStore.ts
VARIABLES
    cpc,                 \* position of sendMessage
    wire,                \* the bytes of the response body, in order
    pos,                 \* how many of them reader.read() has delivered
    pending,             \* bytes TextDecoder holds back between decode calls
    buffer,              \* line 97
    clientContent,       \* line 98, the local currentContent
    steps,               \* state.steps
    messages,            \* state.messages
    isLoading,           \* state.isLoading
    input,               \* state.input
    assistantId,         \* line 79
    cutSeen              \* what a chunk boundary has cut so far: "record", "char"

cvars == << cpc, wire, pos, pending, buffer, clientContent, steps, messages,
            isLoading, input, assistantId, cutSeen >>

\* the state of the UploadBox component, UploadBox.tsx
VARIABLES
    items,               \* line 81: the status of each queue item, in order
    isUploading,         \* line 82
    uploads              \* the startUpload invocations: the items of each
                         \* (targets), the one its loop is at, and whether it
                         \* is still running

uvars == << items, isUploading, uploads >>

vars == << svars, lvars, cvars, uvars >>

\* ------------------------------------------------------------------ ledger
\* Array.prototype.findIndex on the step id; 0 stands for -1
FindIndex(log, id) ==
    IF \E i \in 1..Len(log) : log[i].id = id
    THEN CHOOSE i \in 1..Len(log) :
             /\ log[i].id = id
             /\ \A j \in 1..(i - 1) : log[j].id # id
    ELSE 0

\* object spread { ...a, ...b }: every own key of b overrides, also one whose
\* value is undefined
Spread(a, b) ==
    [k \in (DOMAIN a) \cup (DOMAIN b) |-> IF k \in DOMAIN b THEN b[k] ELSE a[k]]

\* an update takes the entry out and appends the merged one at the end
upsertStepLogMoveToEnd(log, step) ==
    LET idx == FindIndex(log, step.id)
    IN IF idx = 0
       THEN Append(log, step)
       ELSE Append(SubSeq(log, 1, idx - 1) \o SubSeq(log, idx + 1, Len(log)),
                   Spread(log[idx], step))

upsertStepLog(log, step) ==
    LET idx == FindIndex(log, step.id)
    IN IF idx = 0
       THEN Append(log, step)
       ELSE [log EXCEPT ![idx] = Spread(log[idx], step)]

\* the StepLog object sendStep builds, line 90
MkStep(id, title, status, detail) ==
    [id |-> id, title |-> title, status |-> status, detail |-> detail]

\* the keys of a step that hold text (id and status hold enumeration tokens)
TextKeys == { "title", "detail" }

\* JSON serialisation drops the keys whose value is undefined
DropUndefined(obj) ==
    [k \in { x \in DOMAIN obj : ~(x \in TextKeys /\ obj[x] = <<Undef>>) } |-> obj[k]]

JsonSteps(log) == [i \in 1..Len(log) |-> DropUndefined(log[i])]

\* ------------------------------------------------------------------ emitter
\* A synchronous stretch of start() is folded over a record m:
\*   m.log  the ledger,            m.ev  the events enqueued so far,
\*   m.st   the stream's state,    m.ok  FALSE once a call has thrown
\* controller.enqueue throws unless the stream is readable, lines 71-73
sendJSON(m, obj) ==
    IF ~m.ok THEN m
    ELSE IF m.st = "readable"
         THEN [m EXCEPT !.ev = Append(@, obj)]
         ELSE [m EXCEPT !.ok = FALSE]

sendStep(m, id, title, status, detail) ==
    IF ~m.ok THEN m
    ELSE LET step == MkStep(id, title, status, detail)
         IN sendJSON([m EXCEPT !.log = upsertStepLog(@, step)],
                     [type |-> "step", data |-> step])

\* controller.close() that leaves the stream open
controllerCloseNoop(m) == m

\* controller.close(): throws unless the stream is readable
controllerClose(m) ==
    IF ~m.ok THEN m
    ELSE IF m.st = "readable"
         THEN [m EXCEPT !.st = "closed"]
         ELSE [m EXCEPT !.ok = FALSE]

\* the row, with matched_count taken from the ledger instead of the matches
flushRunHistoryLedgerCount(q, ans, k, t, cnt, log, src) ==
    [question |-> q,
     answer |-> OrElse(ans, <<Null>>),
     topk |-> k,
     threshold |-> t,
     matched_count |-> Len(log),
     steps |-> JsonSteps(log),
     sources |-> src]

\* the row flushRunHistory hands to insert, lines 98-107
flushRunHistory(q, ans, k, t, cnt, log, src) ==
    [question |-> q,
     answer |-> OrElse(ans, <<Null>>),
     topk |-> k,
     threshold |-> t,
     matched_count |-> cnt,
     steps |-> JsonSteps(log),
     sources |-> src]

\* the catch block without its error event
CatchBlockStepOnly(m, msg) ==
    sendStep([m EXCEPT !.ok = TRUE], "error", TitleError, "error",
             OrElse(msg, UnknownError))

\* the catch block of start(), lines 252-263, entered with the thrown message
CatchBlock(m, msg) ==
    sendJSON(sendStep([m EXCEPT !.ok = TRUE], "error", TitleError, "error",
                      OrElse(msg, UnknownError)),
             [type |-> "error", data |-> OrElse(msg, ServerError)])

NoThrow == <<"-">>

\* the collaborator call start() makes when it parks at an await
CallOf(next) ==
    CASE next = "embed_wait" -> <<"embed">>
      [] next = "rpc_wait" -> <<"rpc">>
      [] next = "tool_wait" -> <<"tool">>
      [] next = "create_wait" -> <<"create">>
      [] next = "insert_try" -> <<"insert">>
      [] next = "insert_catch" -> <<"insert">>
      [] next = "done" -> <<"close">>
      [] OTHER -> <<>>

\* the awaits at which flushRunHistory has handed its row to insert:
\* lines 168 and 250 in the try block, line 264 in the catch block
PersistAtTryOnly(dest) == dest = "insert_try"

PersistAt(dest) == dest \in { "insert_try", "insert_catch" }

\* The end of a synchronous stretch of the try block that left m, with
\* `thrown` the message of an error the code itself throws (NoThrow if none),
\* and ans, cnt, src the captured values at that point.  When nothing threw,
\* start() parks at `next`; parking at an insert await hands the row over.
\* When something threw, the catch block runs and either parks at its own
\* insert await or, if it throws too, start() rejects.
Park(m, thrown, next, ans, cnt, src) ==
    \E tried \in { m } :
    \E c \in { IF tried.ok /\ thrown = NoThrow
                THEN tried
                ELSE CatchBlock(tried, IF tried.ok THEN thrown ELSE EnqueueError) } :
    LET threw == ~(tried.ok /\ thrown = NoThrow)
        dest == IF ~threw THEN next
                ELSE IF c.ok THEN "insert_catch" ELSE "start_rejected"
    IN /\ answerForLog' = ans
       /\ matchedCountForLog' = cnt
       /\ sourcesForLog' = src
       /\ stepsLog' = c.log
       /\ events' = c.ev
       /\ stream' = c.st
       /\ pc' = dest
       /\ calls' = calls \o CallOf(dest)
       /\ inserted' = IF PersistAt(dest)
                      THEN Append(inserted,
                                  flushRunHistory(question, ans, safeTopK,
                                                  safeThreshold, cnt, c.log, src))
                      ELSE inserted

M0 == [log |-> stepsLog, ev |-> events, st |-> stream, ok |-> TRUE]

\* ------------------------------------------------------------------ pipeline
ServerInit ==
    /\ pc = "request"
    /\ question = <<Undef>>
    /\ history = "absent"
    /\ topK = Param("absent", 0)
    /\ threshold = Param("absent", 0)
    /\ safeTopK = DefaultTopK
    /\ safeThreshold = DefaultThreshold
    /\ stream = "none"
    /\ response = "none"
    /\ stepsLog = <<>>
    /\ sourcesForLog = <<>>
    /\ matchedCountForLog = 0
    /\ answerForLog = <<>>
    /\ currentContent = <<>>
    /\ events = <<>>
    /\ inserted = <<>>
    /\ insertOutcome = "none"
    /\ calls = <<>>
    /\ fragments = <<>>
    /\ rpcResult = "none"
    /\ failed = "none"

\* nothing of the ledger histories or of the store is in use
LedgerIdle == ledgerHist = <<>> /\ storeHist = <<>>

StoreIdle ==
    /\ cpc = "idle"
    /\ wire = <<>>
    /\ pos = 0
    /\ pending = <<>>
    /\ buffer = <<>>
    /\ clientContent = <<>>
    /\ steps = <<>>
    /\ messages = <<>>
    /\ isLoading = FALSE
    /\ input = <<>>
    /\ assistantId = 0
    /\ cutSeen = {}

\* `!question`, line 48
MissingQuestionUndefinedOnly(q) == q = <<Undef>>

MissingQuestion(q) == IsFalsyText(q)

\* POST up to the first await of start(), lines 39-120
POST(q, h, k, t) ==
    /\ UNCHANGED << lvars, cvars, uvars, failed >>
    /\ pc = "request"
    /\ question' = q
    /\ history' = h
    /\ topK' = k
    /\ threshold' = t
    /\ UNCHANGED << currentContent, insertOutcome, fragments, rpcResult >>
    /\ IF MissingQuestion(q)
       THEN /\ pc' = "returned_400"
            /\ response' = "400"
            /\ UNCHANGED << safeTopK, safeThreshold, stream, stepsLog, sourcesForLog, matchedCountForLog,
                            answerForLog, events, inserted, calls >>
       ELSE \E m0 \in { [log |-> <<>>, ev |-> <<>>, st |-> "readable", ok |-> TRUE] } :
            \E m1 \in { sendStep(m0, "received", TitleReceived, "done", q) } :
            \E m2 \in { sendStep(m1, "embed", TitleEmbed, "running", <<Undef>>) } :
               /\ response' = "stream"
               /\ safeTopK' = ClampTopK(k)
               /\ safeThreshold' = ClampThreshold(t)
               /\ Park(m2, NoThrow, "embed_wait", <<>>, 0, <<>>)

\* req.json() rejects, or the body is not an object: the outer catch answers
\* 500, lines 41 and 275-281
PostMalformed ==
    /\ UNCHANGED << lvars, cvars, uvars, failed >>
    /\ pc = "request"
    /\ pc' = "returned_500"
    /\ response' = "500"
    /\ UNCHANGED << question, history, topK, threshold, safeTopK, safeThreshold, stream, stepsLog, sourcesForLog,
                    matchedCountForLog, answerForLog, currentContent, events, inserted,
                    insertOutcome, calls, fragments, rpcResult >>

\* embedDocuments resolves, but the embed step is never marked done
EmbedResolveNoDone ==
    /\ UNCHANGED << lvars, cvars, uvars, failed >>
    /\ pc = "embed_wait"
    /\ LET m2 == sendStep(M0, "retrieve", TitleRetrieve, "running", DetailParams(safeTopK, safeThreshold))
       IN Park(m2, NoThrow, "rpc_wait", answerForLog, matchedCountForLog, sourcesForLog)
    /\ UNCHANGED << question, history, topK, threshold, safeTopK, safeThreshold, response, currentContent, insertOutcome, fragments, rpcResult >>

\* embedDocuments resolves, lines 120-138
EmbedResolve ==
    /\ UNCHANGED << lvars, cvars, uvars, failed >>
    /\ pc = "embed_wait"
    /\ \E m1 \in { sendStep(M0, "embed", TitleEmbed, "done", <<Undef>>) } :
       \E m2 \in { sendStep(m1, "retrieve", TitleRetrieve, "running",
                             DetailParams(safeTopK, safeThreshold)) } :
          Park(m2, NoThrow, "rpc_wait", answerForLog, matchedCountForLog, sourcesForLog)
    /\ UNCHANGED << question, history, topK, threshold, safeTopK, safeThreshold, response, currentContent, insertOutcome, fragments, rpcResult >>

\* embedDocuments rejects, line 120
EmbedReject(msg) ==
    /\ UNCHANGED << lvars, cvars, uvars >>
    /\ failed' = "embed"
    /\ pc = "embed_wait"
    /\ Park(M0, msg, "rpc_wait", answerForLog, matchedCountForLog, sourcesForLog)
    /\ UNCHANGED << question, history, topK, threshold, safeTopK, safeThreshold, response, currentContent, insertOutcome, fragments, rpcResult >>

\* match_documents returns { error }, lines 140-148
RpcError(msg) ==
    /\ UNCHANGED << lvars, cvars, uvars >>
    /\ failed' = "retrieve"
    /\ pc = "rpc_wait"
    /\ LET m1 == sendStep(M0, "retrieve", TitleRetrieve, "error", msg)
       IN Park(m1, msg, "tool_wait", answerForLog, matchedCountForLog, sourcesForLog)
    /\ rpcResult' = "error"
    /\ UNCHANGED << question, history, topK, threshold, safeTopK, safeThreshold, response, currentContent, insertOutcome, fragments >>

\* `!matches.length` on matches = rawMatches ?? [], lines 150-155
noMatchesNullOnly(isNull, matches) == isNull

noMatches(isNull, matches) == Len(matches) = 0

\* match_documents returns { data }, the sources sent after the tool step has
\* started
RpcDataSourcesLate(isNull, rows) ==
    /\ UNCHANGED << lvars, cvars, uvars, failed >>
    /\ pc = "rpc_wait"
    /\ isNull => rows = <<>>
    /\ LET matches == IF isNull THEN <<>> ELSE rows
           n == Len(matches)
       IN IF noMatches(isNull, matches)
          THEN LET m1 == sendStep(M0, "retrieve", TitleRetrieve, "done", DetailNoResult)
                   m2 == sendJSON(m1, [type |-> "delta", data |-> noAns])
               IN Park(m2, NoThrow, "insert_try",
                       IF m1.ok THEN noAns ELSE answerForLog, n, matches)
          ELSE LET m1 == sendStep(M0, "retrieve", TitleRetrieve, "done", DetailHits(n))
                   m2 == sendStep(m1, "tool", TitleTool, "running", DetailToolRunning)
                   m3 == sendJSON(m2, [type |-> "sources", data |-> matches])
               IN Park(m3, NoThrow, "tool_wait", answerForLog, n, matches)
    /\ rpcResult' = IF isNull THEN "null" ELSE "rows"
    /\ UNCHANGED << question, history, topK, threshold, safeTopK, safeThreshold, response, currentContent, insertOutcome, fragments >>

\* match_documents returns { data }, lines 150-191
RpcData(isNull, rows) ==
    /\ UNCHANGED << lvars, cvars, uvars, failed >>
    /\ pc = "rpc_wait"
    /\ isNull => rows = <<>>
    /\ LET matches == IF isNull THEN <<>> ELSE rows
           n == Len(matches)
       IN IF noMatches(isNull, matches)
          THEN \E m1 \in { sendStep(M0, "retrieve", TitleRetrieve, "done",
                                     DetailNoResult) } :
               \E m2 \in { sendJSON(m1, [type |-> "delta", data |-> noAns]) } :
                  Park(m2, NoThrow, "insert_try",
                       IF m1.ok THEN noAns ELSE answerForLog, n, matches)
          ELSE \E m1 \in { sendStep(M0, "retrieve", TitleRetrieve, "done",
                                     DetailHits(n)) } :
               \E m2 \in { sendJSON(m1, [type |-> "sources", data |-> matches]) } :
               \E m3 \in { sendStep(m2, "tool", TitleTool, "running",
                                     DetailToolRunning) } :
                  Park(m3, NoThrow, "tool_wait", answerForLog, n, matches)
    /\ rpcResult' = IF isNull THEN "null" ELSE "rows"
    /\ UNCHANGED << question, history, topK, threshold, safeTopK, safeThreshold, response, currentContent, insertOutcome, fragments >>

\* the message of the TypeError `history?.map` throws when history is
\* neither absent nor an array, line 215
HistoryError == <<"m">>

\* the tool placeholder's timer fires, and the llm step is started without
\* the tool step being settled
ToolTimerUnsettled ==
    /\ UNCHANGED << lvars, cvars, uvars >>
    /\ pc = "tool_wait"
    /\ LET n == Len(sourcesForLog)
           m1 == M0
           m2 == IF m1.ok THEN m1
                 ELSE sendStep([m1 EXCEPT !.ok = TRUE], "tool", TitleTool, "error",
                               EnqueueError)
           m3 == IF history = "malformed" THEN m2
                 ELSE sendStep(m2, "llm", TitleLlm, "running", <<Undef>>)
       IN /\ Park(m3, IF history = "malformed" THEN HistoryError ELSE NoThrow,
                  "create_wait", answerForLog, matchedCountForLog, sourcesForLog)
          /\ failed' = IF history = "malformed" /\ m2.ok THEN "history" ELSE failed
    /\ UNCHANGED << question, history, topK, threshold, safeTopK, safeThreshold, response, currentContent, insertOutcome, fragments, rpcResult >>

\* the tool placeholder's timer fires, lines 192-228; the inner catch handles
\* whatever the inner try throws
ToolTimer ==
    /\ UNCHANGED << lvars, cvars, uvars >>
    /\ pc = "tool_wait"
    /\ \E n \in { Len(sourcesForLog) } :
       \E m1 \in { sendStep(M0, "tool", TitleTool, "done", DetailToolDone(n)) } :
       \E m2 \in { IF m1.ok THEN m1
                    ELSE sendStep([m1 EXCEPT !.ok = TRUE], "tool", TitleTool, "error",
                                  EnqueueError) } :
       \E m3 \in { IF history = "malformed" THEN m2
                    ELSE sendStep(m2, "llm", TitleLlm, "running", <<Undef>>) } :
          /\ Park(m3, IF history = "malformed" THEN HistoryError ELSE NoThrow,
                  "create_wait", answerForLog, matchedCountForLog, sourcesForLog)
          /\ failed' = IF history = "malformed" /\ m2.ok THEN "history" ELSE failed
    /\ UNCHANGED << question, history, topK, threshold, safeTopK, safeThreshold, response, currentContent, insertOutcome, fragments, rpcResult >>

\* completions.create resolves with the chunk iterator, lines 228-240
CreateResolve ==
    /\ UNCHANGED << lvars, cvars, uvars, failed >>
    /\ pc = "create_wait"
    /\ currentContent' = <<>>
    /\ Park(M0, NoThrow, "chunk_wait", answerForLog, matchedCountForLog, sourcesForLog)
    /\ UNCHANGED << question, history, topK, threshold, safeTopK, safeThreshold, response, insertOutcome, fragments, rpcResult >>

\* completions.create rejects, line 228
CreateReject(msg) ==
    /\ UNCHANGED << lvars, cvars, uvars >>
    /\ failed' = "create"
    /\ pc = "create_wait"
    /\ Park(M0, msg, "chunk_wait", answerForLog, matchedCountForLog, sourcesForLog)
    /\ UNCHANGED << question, history, topK, threshold, safeTopK, safeThreshold, response, currentContent, insertOutcome, fragments, rpcResult >>

\* `currentContent += delta`, line 243
AccumulateAssign(cur, delta) == delta

Accumulate(cur, delta) == cur \o delta

\* the delta event carries the accumulated buffer
DeltaEventCumulative(cur, delta) == [type |-> "delta", data |-> cur \o delta]

\* `sendJSON({ type: "delta", data: delta })`, line 245
DeltaEvent(cur, delta) == [type |-> "delta", data |-> delta]

\* the iterator yields one chunk, lines 240-247
NextChunk(delta) ==
    /\ UNCHANGED << lvars, cvars, uvars, failed >>
    /\ pc = "chunk_wait"
    /\ Len(fragments) < MaxFragments
    /\ fragments' = Append(fragments, delta)
    /\ IF IsFalsyText(delta)
       THEN /\ UNCHANGED currentContent
            /\ Park(M0, NoThrow, "chunk_wait", answerForLog, matchedCountForLog,
                    sourcesForLog)
       ELSE /\ currentContent' = Accumulate(currentContent, delta)
            /\ Park(sendJSON(M0, DeltaEvent(currentContent, delta)), NoThrow,
                    "chunk_wait", Accumulate(currentContent, delta), matchedCountForLog,
                    sourcesForLog)
    /\ UNCHANGED << question, history, topK, threshold, safeTopK, safeThreshold, response, insertOutcome, rpcResult >>

\* the iterator is exhausted, lines 249-250
StreamEnd ==
    /\ UNCHANGED << lvars, cvars, uvars, failed >>
    /\ pc = "chunk_wait"
    /\ Park(sendStep(M0, "llm", TitleLlm, "done", <<Undef>>), NoThrow, "insert_try",
            answerForLog, matchedCountForLog, sourcesForLog)
    /\ UNCHANGED << question, history, topK, threshold, safeTopK, safeThreshold, response, currentContent, insertOutcome, fragments, rpcResult >>

\* the iterator throws, line 240
StreamFail(msg) ==
    /\ UNCHANGED << lvars, cvars, uvars >>
    /\ failed' = "chunks"
    /\ pc = "chunk_wait"
    /\ Park(M0, msg, "chunk_wait", answerForLog, matchedCountForLog, sourcesForLog)
    /\ UNCHANGED << question, history, topK, threshold, safeTopK, safeThreshold, response, currentContent, insertOutcome, fragments, rpcResult >>

\* flushRunHistory without its try/catch: a throw of insert reaches the caller
flushRunHistoryReturnRethrow(m, outcome) ==
    IF outcome = "throw" THEN [m EXCEPT !.ok = FALSE] ELSE m

\* how `await flushRunHistory()` returns, lines 96-111: the result of insert
\* is not looked at, and a throw is logged and swallowed
flushRunHistoryReturn(m, outcome) == m

\* the insert of the try block ends (flushRunHistory swallows a throw) and
\* controller.close() follows, lines 168-170 and 250-251
InsertReturnTry(outcome) ==
    /\ UNCHANGED << lvars, cvars, uvars, failed >>
    /\ pc = "insert_try"
    /\ insertOutcome' = outcome
    /\ Park(controllerClose(flushRunHistoryReturn(M0, outcome)), NoThrow, "done",
            answerForLog, matchedCountForLog, sourcesForLog)
    /\ UNCHANGED << question, history, topK, threshold, safeTopK, safeThreshold, response, currentContent, fragments, rpcResult >>

\* the insert of the catch block ends and controller.close() follows,
\* lines 264-265; a throw of close() rejects start()
InsertReturnCatch(outcome) ==
    /\ UNCHANGED << lvars, cvars, uvars, failed >>
    /\ pc = "insert_catch"
    /\ insertOutcome' = outcome
    /\ LET m == controllerClose(flushRunHistoryReturn(M0, outcome))
       IN /\ stream' = m.st
          /\ pc' = IF m.ok THEN "done" ELSE "start_rejected"
          /\ calls' = IF m.ok THEN Append(calls, "close") ELSE calls
    /\ UNCHANGED << question, history, topK, threshold, safeTopK, safeThreshold, response, stepsLog, sourcesForLog, matchedCountForLog,
                    answerForLog, currentContent, events, inserted, fragments,
                    rpcResult >>

AwaitPoints ==
    { "embed_wait", "rpc_wait", "tool_wait", "create_wait", "chunk_wait",
      "insert_try", "insert_catch" }

\* the caller disconnects: the consumer cancels the stream while start() is
\* parked at an await
Cancel ==
    /\ UNCHANGED << lvars, cvars, uvars, failed >>
    /\ pc \in AwaitPoints
    /\ stream = "readable"
    /\ stream' = "cancelled"
    /\ UNCHANGED << pc, question, history, topK, threshold, safeTopK, safeThreshold, response, stepsLog, sourcesForLog,
                    matchedCountForLog, answerForLog, currentContent, events,
                    inserted, insertOutcome, calls, fragments, rpcResult >>

InsertOutcomes == { "ok", "error", "throw" }

HistoryKinds == { "absent", "array", "malformed" }

\* topK of the request bodies the pipeline is explored with (3.7); NextParams
\* below goes through all of TopKInputs
PipelineTopKs == { Param("number", 37) }

Next ==
    \/ \E q \in Questions, h \in HistoryKinds, k \in PipelineTopKs :
           POST(q, h, k, Param("absent", 0))
    \/ PostMalformed
    \/ EmbedResolve
    \/ \E msg \in ErrMessages : EmbedReject(msg)
    \/ \E msg \in ErrMessages : RpcError(msg)
    \/ \E isNull \in BOOLEAN, rows \in MatchLists : RpcData(isNull, rows)
    \/ ToolTimer
    \/ CreateResolve
    \/ \E msg \in ErrMessages : CreateReject(msg)
    \/ \E delta \in ChunkContents : NextChunk(delta)
    \/ StreamEnd
    \/ \E msg \in ErrMessages : StreamFail(msg)
    \/ \E outcome \in InsertOutcomes : InsertReturnTry(outcome)
    \/ \E outcome \in InsertOutcomes : InsertReturnCatch(outcome)
    \/ Cancel

\* UploadBox as mounted, lines 81-82
UploadIdle == items = <<>> /\ isUploading = FALSE /\ uploads = <<>>

Init == ServerInit /\ LedgerIdle /\ StoreIdle /\ UploadIdle

Spec == Init /\ [][Next]_vars

\* what an awaited collaborator call can do to let start() go on: line 119,
\* lines 131-138, line 193, line 228, line 240 (the stream ending or
\* failing), and the insert of flushRunHistory, line 97
EmbedReturns == EmbedResolve \/ \E msg \in ErrMessages : EmbedReject(msg)

RpcReturns ==
    \/ \E msg \in ErrMessages : RpcError(msg)
    \/ \E isNull \in BOOLEAN, rows \in MatchLists : RpcData(isNull, rows)

CreateReturns == CreateResolve \/ \E msg \in ErrMessages : CreateReject(msg)

StreamReturns == StreamEnd \/ \E msg \in ErrMessages : StreamFail(msg)

InsertReturns ==
    \/ \E outcome \in InsertOutcomes : InsertReturnTry(outcome)
    \/ \E outcome \in InsertOutcomes : InsertReturnCatch(outcome)

\* the pipeline with collaborators that always return or fail in the end, and
\* a timer that fires; the caller may disconnect or not
SpecFair ==
    /\ Init
    /\ [][Next]_vars
    /\ WF_vars(EmbedReturns)
    /\ WF_vars(RpcReturns)
    /\ WF_vars(ToolTimer)
    /\ WF_vars(CreateReturns)
    /\ WF_vars(StreamReturns)
    /\ WF_vars(InsertReturns)

\* the retrieval parameters on their own: every topK and threshold of the
\* input sets, through a run that retrieves nothing and persists
NextParams ==
    \/ \E k \in TopKInputs, t \in ThresholdInputs : POST(<< "a" >>, "absent", k, t)
    \/ EmbedResolve
    \/ RpcData(TRUE, <<>>)
    \/ InsertReturnTry("ok")

SpecParams == Init /\ [][NextParams]_vars

\* ------------------------------------------------------------------ the ledger on its own
\* upserts applied at most in one behaviour of SpecLedger
MaxUpserts == 3

StepIds == { "embed", "retrieve" }

TitleOf(id) == IF id = "embed" THEN TitleEmbed ELSE TitleRetrieve

\* the StepLog objects sendStep can build: detail is a text or undefined
ServerSteps ==
    { MkStep(id, TitleOf(id), st, d) :
        id \in StepIds, st \in { "running", "done" }, d \in { <<Undef>>, <<"k">> } }

\* the store's step reducer, chatStore.ts lines 129-140, which always appends
storeUpsertAppend(prevSteps, step) == Append(prevSteps, step)

\* the store's step reducer, chatStore.ts lines 129-140
storeUpsert(prevSteps, step) ==
    LET idx == FindIndex(prevSteps, step.id)
    IN IF idx = 0
       THEN Append(prevSteps, step)
       ELSE [prevSteps EXCEPT ![idx] = Spread(prevSteps[idx], step)]

\* one step update reaches both ledgers: sendStep upserts the StepLog object
\* into stepsLog, and the store upserts what JSON.parse makes of its JSON
Upsert(step) ==
    /\ Len(ledgerHist) < MaxUpserts
    /\ stepsLog' = upsertStepLog(stepsLog, step)
    /\ ledgerHist' = Append(ledgerHist, [step |-> step, result |-> stepsLog'])
    /\ steps' = storeUpsert(steps, DropUndefined(step))
    /\ storeHist' = Append(storeHist, [step |-> DropUndefined(step), result |-> steps'])
    /\ UNCHANGED << pc, question, history, topK, threshold, safeTopK, safeThreshold, stream, response, sourcesForLog,
                    matchedCountForLog,
                    answerForLog, currentContent, events, inserted, insertOutcome,
                    calls, fragments, rpcResult, failed >>
    /\ UNCHANGED << cpc, wire, pos, pending, buffer, clientContent, messages,
                    isLoading, input, assistantId, cutSeen >>
    /\ UNCHANGED uvars

NextLedger == \E step \in ServerSteps : Upsert(step)

SpecLedger == Init /\ [][NextLedger]_vars


\* ------------------------------------------------------------------ wire format
\* The body is UTF-8 text, one JSON document and "\n" per enqueue (line 72).
\* JSON punctuation and keys are one unit each, an enumeration token (a type,
\* a step id, a status) is one unit, text is written character by character
\* between quotes with JSON's escapes, and the wide character "W" of the
\* Chinese titles takes two bytes.
Q == "\""
BS == "\\"
NL == "\n"

Concat3(a, b, c) == a \o b \o c

\* JSON's escaping of one character of a string
EscChar(c) ==
    IF c = NL THEN << BS, "n" >>
    ELSE IF c = Q \/ c = BS THEN << BS, c >>
    ELSE << c >>

\* the concatenation of a sequence of sequences
RECURSIVE Flat(_)
Flat(ss) ==
    IF Len(ss) = 0 THEN <<>>
    ELSE IF Len(ss) = 1 THEN ss[1]
    ELSE LET h == Len(ss) \div 2
         IN Flat(SubSeq(ss, 1, h)) \o Flat(SubSeq(ss, h + 1, Len(ss)))

Esc(t) == Flat([i \in 1..Len(t) |-> EscChar(t[i])])

Str(t) == Concat3(<< Q >>, Esc(t), << Q >>)

StepJson(step) ==
    << "I", step.id, "T" >> \o Str(step.title) \o << "U", step.status >>
        \o (IF "detail" \in DOMAIN step THEN << "D" >> \o Str(step.detail) ELSE <<>>)

RowJson(r) ==
    << "(" >> \o NumToText(r.id) \o << "," >> \o NumToText(r.document_id) \o << "," >>
        \o Str(r.content)
        \o (IF "similarity" \in DOMAIN r THEN << "S" >> \o NumToText(r.similarity) ELSE <<>>)
        \o (IF "score" \in DOMAIN r THEN << "C" >> \o NumToText(r.score) ELSE <<>>)
        \o << ")" >>

RowsJson(rows) == Flat([i \in 1..Len(rows) |-> RowJson(rows[i])])

\* JSON.stringify of an event object, line 72
Stringify(ev) ==
    << "{", ev.type >>
        \o (CASE ev.type = "step" -> StepJson(DropUndefined(ev.data))
              [] ev.type = "sources" -> Concat3(<< "[" >>, RowsJson(ev.data), << "]" >>)
              [] OTHER -> Str(ev.data))
        \o << "}" >>

\* TextEncoder.encode: UTF-8
encode(t) ==
    Flat([i \in 1..Len(t) |-> IF t[i] = "W" THEN << "W:1", "W:2" >> ELSE << t[i] >>])

\* U+FFFD, what the decoder puts for a malformed byte sequence
Replacement == "?"

\* UTF-8 decoding of bytes, an incomplete sequence at the end held back:
\* what the byte at i contributes to the text
decodeAt(bs, i) ==
    IF bs[i] = "W:1"
    THEN IF i = Len(bs) THEN <<>>
         ELSE IF bs[i + 1] = "W:2" THEN << "W" >> ELSE << Replacement >>
    ELSE IF bs[i] = "W:2"
         THEN IF i > 1 /\ bs[i - 1] = "W:1" THEN <<>> ELSE << Replacement >>
         ELSE << bs[i] >>

decodeAll(bs) ==
    [text |-> Flat([i \in 1..Len(bs) |-> decodeAt(bs, i)]),
     pending |-> IF bs # <<>> /\ bs[Len(bs)] = "W:1" THEN << "W:1" >> ELSE <<>>]

\* decoder.decode(value, { stream: true }), line 106
decode(held, value) == decodeAll(held \o value)

\* String.prototype.split("\n")
RECURSIVE Split(_)
Split(t) ==
    IF \E i \in 1..Len(t) : t[i] = NL
    THEN LET i == CHOOSE k \in 1..Len(t) :
                      t[k] = NL /\ \A j \in 1..(k - 1) : t[j] # NL
         IN << SubSeq(t, 1, i - 1) >> \o Split(SubSeq(t, i + 1, Len(t)))
    ELSE << t >>

Whitespace == { " ", "\t", "\r", NL }

\* `!line.trim()`
IsBlank(t) == \A i \in 1..Len(t) : t[i] \in Whitespace

At(s, i) == IF i \in 1..Len(s) THEN s[i] ELSE "<eof>"

Digits == { "0", "1", "2", "3", "4", "5", "6", "7", "8", "9" }

DigitValue(c) == CHOOSE n \in 0..9 : Digit(n) = c

\* the index of the quote closing a string whose content starts at i; 0 if none
RECURSIVE StrEnd(_, _)
StrEnd(s, i) ==
    IF i > Len(s) THEN 0
    ELSE IF s[i] = BS THEN StrEnd(s, i + 2)
    ELSE IF s[i] = Q THEN i
    ELSE StrEnd(s, i + 1)

RECURSIVE Unesc(_)
Unesc(t) ==
    IF t = <<>> THEN <<>>
    ELSE IF Head(t) = BS
         THEN << IF t[2] = "n" THEN NL ELSE t[2] >> \o Unesc(SubSeq(t, 3, Len(t)))
         ELSE << Head(t) >> \o Unesc(Tail(t))

Fail == [ok |-> FALSE]

\* a JSON string starting at i: its text and the index after it
ReadStr(s, i) ==
    IF At(s, i) = Q /\ StrEnd(s, i + 1) # 0
    THEN LET e == StrEnd(s, i + 1)
         IN [ok |-> TRUE, val |-> Unesc(SubSeq(s, i + 1, e - 1)), next |-> e + 1]
    ELSE Fail

RECURSIVE NumEnd(_, _)
NumEnd(s, i) == IF At(s, i) \in Digits THEN NumEnd(s, i + 1) ELSE i

RECURSIVE TextToNum(_)
TextToNum(t) ==
    IF Len(t) = 1 THEN DigitValue(t[1])
    ELSE 10 * TextToNum(SubSeq(t, 1, Len(t) - 1)) + DigitValue(t[Len(t)])

\* a JSON number starting at i
ReadNum(s, i) ==
    IF At(s, i) \in Digits
    THEN [ok |-> TRUE, val |-> TextToNum(SubSeq(s, i, NumEnd(s, i) - 1)),
          next |-> NumEnd(s, i)]
    ELSE Fail

\* an optional numeric member `key` of a row, starting at i
ReadOpt(s, i, key) ==
    IF At(s, i) = key
    THEN LET n == ReadNum(s, i + 1)
         IN IF n.ok THEN [ok |-> TRUE, has |-> TRUE, val |-> n.val, next |-> n.next]
            ELSE Fail
    ELSE [ok |-> TRUE, has |-> FALSE, val |-> 0, next |-> i]

\* A row object is read member by member; each operator below takes what the
\* members before it gave (a: id, b: document_id, c: content, d: similarity,
\* e: score) and reads on from where the last one ended.
RowEnd(s, a, b, c, d, e) ==
    IF e.ok /\ At(s, e.next) = ")"
    THEN LET base == [id |-> a.val, document_id |-> b.val, content |-> c.val]
             withS == IF d.has THEN Spread(base, [similarity |-> d.val]) ELSE base
         IN [ok |-> TRUE, next |-> e.next + 1,
             val |-> IF e.has THEN Spread(withS, [score |-> e.val]) ELSE withS]
    ELSE Fail

RowScore(s, a, b, c, d) ==
    IF d.ok THEN RowEnd(s, a, b, c, d, ReadOpt(s, d.next, "C")) ELSE Fail

RowSimilarity(s, a, b, c) ==
    IF c.ok THEN RowScore(s, a, b, c, ReadOpt(s, c.next, "S")) ELSE Fail

RowContent(s, a, b) ==
    IF b.ok /\ At(s, b.next) = ","
    THEN RowSimilarity(s, a, b, ReadStr(s, b.next + 1)) ELSE Fail

RowDocumentId(s, a) ==
    IF a.ok /\ At(s, a.next) = ","
    THEN RowContent(s, a, ReadNum(s, a.next + 1)) ELSE Fail

\* one row object starting at i
ReadRow(s, i) ==
    IF At(s, i) = "(" THEN RowDocumentId(s, ReadNum(s, i + 1)) ELSE Fail

\* the rows of an array whose first element starts at i, up to its "]"
RECURSIVE ReadRows(_, _)
RowsJoin(r, rest) ==
    IF rest.ok
    THEN [ok |-> TRUE, val |-> << r.val >> \o rest.val, next |-> rest.next]
    ELSE Fail

RowsAfter(s, r) ==
    IF r.ok THEN RowsJoin(r, ReadRows(s, r.next)) ELSE Fail

ReadRows(s, i) ==
    IF At(s, i) = "]" THEN [ok |-> TRUE, val |-> <<>>, next |-> i + 1]
    ELSE RowsAfter(s, ReadRow(s, i))

StatusTokens == { "pending", "running", "done", "error" }
IdTokens == { "received", "embed", "retrieve", "tool", "llm", "error" }

\* a step whose detail member, if it has one, was read as d
StepWithDetail(s, i, t, d) ==
    IF d.ok
    THEN [ok |-> TRUE, next |-> d.next,
          val |-> [id |-> s[i + 1], title |-> t.val, status |-> s[t.next + 1],
                   detail |-> d.val]]
    ELSE Fail

\* a step object after its title t: the status, then the optional detail
StepStatus(s, i, t) ==
    IF t.ok /\ At(s, t.next) = "U" /\ At(s, t.next + 1) \in StatusTokens
    THEN IF At(s, t.next + 2) = "D"
         THEN StepWithDetail(s, i, t, ReadStr(s, t.next + 3))
         ELSE [ok |-> TRUE, next |-> t.next + 2,
               val |-> [id |-> s[i + 1], title |-> t.val, status |-> s[t.next + 1]]]
    ELSE Fail

ReadStep(s, i) ==
    IF At(s, i) = "I" /\ At(s, i + 1) \in IdTokens /\ At(s, i + 2) = "T"
    THEN StepStatus(s, i, ReadStr(s, i + 3))
    ELSE Fail

\* the value of the data member, by the type member
ReadData(s) ==
    CASE At(s, 2) = "step" -> ReadStep(s, 3)
      [] At(s, 2) = "sources" -> IF At(s, 3) = "[" THEN ReadRows(s, 4) ELSE Fail
      [] At(s, 2) \in { "delta", "error" } -> ReadStr(s, 3)
      [] OTHER -> Fail

ParseEnd(s, body) ==
    IF At(s, 1) = "{" /\ body.ok /\ body.next = Len(s) /\ s[Len(s)] = "}"
    THEN [ok |-> TRUE, type |-> At(s, 2), data |-> body.val]
    ELSE Fail

\* JSON.parse of one line: [ok, type, data], ok FALSE when it throws
Parse(s) == ParseEnd(s, ReadData(s))

\* the bytes one sendJSON enqueues
Frame(ev) == encode(Stringify(ev) \o << NL >>)

WireOf(evs) == Flat([i \in 1..Len(evs) |-> Frame(evs[i])])

\* ------------------------------------------------------------------ the store
\* records a response body holds at most in one behaviour of SpecClient
MaxRecords == 2

\* String.prototype.trim
RECURSIVE TrimLeft(_)
TrimLeft(t) ==
    IF t # <<>> /\ Head(t) \in Whitespace THEN TrimLeft(Tail(t)) ELSE t

RECURSIVE TrimRight(_)
TrimRight(t) ==
    IF t # <<>> /\ t[Len(t)] \in Whitespace
    THEN TrimRight(SubSeq(t, 1, Len(t) - 1)) ELSE t

Trim(t) == TrimRight(TrimLeft(t))

\* the text of the message the catch block appends, line 205
ErrorNotice == << "W", "!" >>

\* rows to Source objects, lines 142-149
NormaliseSources(rows) ==
    [idx \in 1..Len(rows) |->
        [id |-> rows[idx].id,
         document_id |-> rows[idx].document_id,
         snippet |-> rows[idx].content,
         similarity |->
            IF "similarity" \in DOMAIN rows[idx] THEN NumToText(rows[idx].similarity)
            ELSE IF "score" \in DOMAIN rows[idx] THEN NumToText(rows[idx].score)
            ELSE <<>>]]

\* messages.map(msg => msg.id === assistantId ? { ...msg, ...patch } : msg)
PatchAssistant(msgs, aid, patch) ==
    [i \in 1..Len(msgs) |-> IF msgs[i].id = aid THEN Spread(msgs[i], patch) ELSE msgs[i]]

\* The reader loop works on st = [steps, messages, content, buffer, pending]:
\* state.steps, state.messages, and the locals currentContent, buffer and the
\* decoder's held bytes.
\* the branches on data.type, lines 129-171
ApplyEvent(st, aid, data) ==
    IF ~data.ok THEN st
    ELSE CASE data.type = "step" ->
                [st EXCEPT !.steps = storeUpsert(@, data.data)]
           [] data.type = "sources" ->
                [st EXCEPT !.messages =
                    PatchAssistant(@, aid, [sources |-> NormaliseSources(data.data)])]
           [] data.type = "delta" ->
                IF data.data = <<>> THEN st
                ELSE [st EXCEPT
                         !.content = @ \o data.data,
                         !.messages =
                             PatchAssistant(@, aid,
                                            [content |-> st.content \o data.data])]
           [] OTHER -> st

\* the catch of lines 115-118 without its `continue`: reading data.type of
\* undefined throws, and the outer catch block appends its notice
ApplyLineNoContinue(st, aid, line) ==
    IF IsBlank(line) THEN st
    ELSE IF ~Parse(line).ok
         THEN [st EXCEPT !.messages =
                  Append(@, [id |-> Len(@) + 1, role |-> "assistant",
                             content |-> ErrorNotice])]
         ELSE ApplyEvent(st, aid, Parse(line))

\* the body of `for (const line of lines)`, lines 110-172
ApplyLine(st, aid, line) ==
    IF IsBlank(line) THEN st ELSE ApplyEvent(st, aid, Parse(line))

RECURSIVE ApplyLines(_, _, _)
ApplyLines(st, aid, lines) ==
    IF lines = <<>> THEN st
    ELSE ApplyLines(ApplyLine(st, aid, Head(lines)), aid, Tail(lines))

\* the carry-over is dropped instead of kept
carryOverDropped(lines) == <<>>

\* `buffer = lines.pop() || ""`, line 108
carryOver(lines) == lines[Len(lines)]

\* one turn of the reader loop on a chunk, lines 106-172
OnChunk(st, aid, value) ==
    LET d == decode(st.pending, value)
        lines == Split(st.buffer \o d.text)
        kept == [st EXCEPT !.pending = d.pending, !.buffer = carryOver(lines)]
    IN ApplyLines(kept, aid, SubSeq(lines, 1, Len(lines) - 1))

\* the leftover buffer's branch, lines 180-191: only a delta is applied, and the
\* local currentContent is not updated
ApplyLeftover(st, aid, data) ==
    IF data.ok /\ data.type = "delta" /\ data.data # <<>>
    THEN [st EXCEPT !.messages =
             PatchAssistant(@, aid, [content |-> st.content \o data.data])]
    ELSE st

\* the leftover buffer after the loop, lines 176-195
OnClose(st, aid) ==
    IF IsBlank(st.buffer) THEN st ELSE ApplyLeftover(st, aid, Parse(st.buffer))

StoreState ==
    [steps |-> steps, messages |-> messages, content |-> clientContent,
     buffer |-> buffer, pending |-> pending]

SetStore(st) ==
    /\ steps' = st.steps
    /\ messages' = st.messages
    /\ clientContent' = st.content
    /\ buffer' = st.buffer
    /\ pending' = st.pending

\* sendMessage invocations that get past line 50 at most in one behaviour
MaxSends == 2

\* the user messages of the store, one per sendMessage that got past line 50
Sends == Cardinality({ i \in 1..Len(messages) : messages[i].role = "user" })

\* the test of line 50 without `|| isLoading`
MustReturnBlankOnly(userInput, loading) == userInput = <<>>

\* `if (!userInput || isLoading) return`, line 50
MustReturn(userInput, loading) == userInput = <<>> \/ loading

\* sendMessage up to the fetch, lines 47-89
SendMessage ==
    /\ ~MustReturn(Trim(input), isLoading)
    /\ Sends < MaxSends
    /\ LET n == Len(messages)
       IN /\ messages' = messages \o
                << [id |-> n + 1, role |-> "user", content |-> Trim(input)],
                   [id |-> n + 2, role |-> "assistant", content |-> <<>>,
                    sources |-> <<>>] >>
          /\ assistantId' = n + 2
    /\ steps' = <<>>
    /\ isLoading' = TRUE
    /\ input' = <<>>
    /\ cpc' = "fetching"
    /\ UNCHANGED << svars, lvars, uvars, wire, pos, pending, buffer, clientContent, cutSeen >>

\* fetch resolves with a body, lines 91-98
FetchResolve ==
    /\ cpc = "fetching"
    /\ cpc' = "reading"
    /\ pos' = 0
    /\ pending' = <<>>
    /\ buffer' = <<>>
    /\ clientContent' = <<>>
    /\ UNCHANGED << svars, lvars, uvars, wire, steps, messages, isLoading, input, assistantId,
                    cutSeen >>

\* the catch block puts its notice in the place of the in-progress message
FailedRetract ==
    /\ messages' = [messages EXCEPT ![assistantId] =
                        [id |-> assistantId, role |-> "assistant",
                         content |-> ErrorNotice]]
    /\ isLoading' = FALSE
    /\ cpc' = "failed"

\* the catch and finally blocks, lines 196-211
Failed ==
    /\ messages' = Append(messages, [id |-> Len(messages) + 1, role |-> "assistant",
                                     content |-> ErrorNotice])
    /\ isLoading' = FALSE
    /\ cpc' = "failed"

\* fetch rejects, or the response has no body, lines 82-91
FetchFail ==
    /\ cpc = "fetching"
    /\ Failed
    /\ UNCHANGED << svars, lvars, uvars, wire, pos, pending, buffer, clientContent, steps,
                    input, assistantId, cutSeen >>

\* reader.read() resolves with the next k bytes, lines 102-172
ReadChunk(k) ==
    /\ cpc = "reading"
    /\ pos + k <= Len(wire)
    /\ pos' = pos + k
    /\ SetStore(OnChunk(StoreState, assistantId, SubSeq(wire, pos + 1, pos + k)))
    /\ cutSeen' = cutSeen \cup (IF buffer' # <<>> \/ pending' # <<>> THEN { "record" } ELSE {})
                           \cup (IF pending' # <<>> THEN { "char" } ELSE {})
    /\ UNCHANGED << svars, lvars, uvars, cpc, wire, isLoading, input, assistantId >>

\* reader.read() resolves with done, lines 102-104 and 175-211
ReadDone ==
    /\ cpc = "reading"
    /\ pos = Len(wire)
    /\ SetStore(OnClose(StoreState, assistantId))
    /\ isLoading' = FALSE
    /\ cpc' = "done"
    /\ UNCHANGED << svars, lvars, uvars, wire, pos, input, assistantId, cutSeen >>

\* reader.read() rejects, lines 102 and 196-211
ReadFail ==
    /\ cpc = "reading"
    /\ Failed
    /\ UNCHANGED << svars, lvars, uvars, wire, pos, pending, buffer, clientContent, steps,
                    input, assistantId, cutSeen >>

\* events a response body is made of in SpecClient
EventPool ==
    << [type |-> "step", data |-> MkStep("embed", TitleEmbed, "running", <<Undef>>)],
       [type |-> "step", data |-> MkStep("embed", TitleEmbed, "done", <<"k", Q>>)],
       [type |-> "step", data |-> MkStep("retrieve", TitleRetrieve, "done", <<Undef>>)],
       [type |-> "sources", data |-> << [id |-> 1, document_id |-> 7,
                                         content |-> <<"c", NL>>, similarity |-> 8],
                                        [id |-> 12, document_id |-> 9,
                                         content |-> <<>>, score |-> 5] >>],
       [type |-> "delta", data |-> <<"a">>],
       [type |-> "delta", data |-> <<NL, "W", BS>>],
       [type |-> "delta", data |-> <<>>],
       [type |-> "error", data |-> <<"x">>] >>

\* the well-formed bodies: every record a JSON document followed by "\n"
WellFormedWires ==
    { WireOf([i \in 1..Len(ix) |-> EventPool[ix[i]]]) :
        ix \in SeqsUpTo(1..Len(EventPool), MaxRecords) }

ClientInputs == { <<" ", "q">>, <<" ">> }

InitClient ==
    /\ ServerInit
    /\ LedgerIdle
    /\ UploadIdle
    /\ cpc = "idle"
    /\ wire \in WellFormedWires
    /\ pos = 0
    /\ pending = <<>>
    /\ buffer = <<>>
    /\ clientContent = <<>>
    /\ steps = <<>>
    /\ messages = <<>>
    /\ isLoading = FALSE
    /\ input \in ClientInputs
    /\ assistantId = 0
    /\ cutSeen = {}

NextClient ==
    \/ SendMessage
    \/ FetchResolve
    \/ FetchFail
    \/ \E k \in 1..Len(wire) : ReadChunk(k)
    \/ ReadDone
    \/ ReadFail

SpecClient == InitClient /\ [][NextClient]_vars

\* `setInput: (v) => set({ input: v })`, line 32
SetInput(v) ==
    /\ input' = v
    /\ UNCHANGED << svars, lvars, uvars, cpc, wire, pos, pending, buffer, clientContent, steps,
                    messages, isLoading, assistantId, cutSeen >>

\* the store as created, lines 26-31, and the body every fetch is answered with
InitSend ==
    /\ ServerInit
    /\ LedgerIdle
    /\ UploadIdle
    /\ cpc = "idle"
    /\ wire \in { WireOf(<< EventPool[2], EventPool[5] >>), WireOf(<< EventPool[8] >>) }
    /\ pos = 0
    /\ pending = <<>>
    /\ buffer = <<>>
    /\ clientContent = <<>>
    /\ steps = <<>>
    /\ messages = <<>>
    /\ isLoading = FALSE
    /\ input = <<>>
    /\ assistantId = 0
    /\ cutSeen = {}

\* the store with a user who types at any time and sends again
NextSend ==
    \/ NextClient
    \/ \E v \in ClientInputs : SetInput(v)

SpecSend == InitSend /\ [][NextSend]_vars

\* ------------------------------------------------------------------ other bodies
\* well-formed records a body holds at most in one behaviour of SpecBodies
MaxLines == 2

\* a line JSON.parse throws on, lines 113-118: a delta record cut short
MalformedLine == << "{", "delta", Q, "a" >>

\* the lines of the bodies of SpecBodies: 0 is the malformed line, the others
\* are records, one of each type
BodyLine(k) ==
    CASE k = 0 -> MalformedLine
      [] k = 1 -> Stringify(EventPool[1])
      [] k = 2 -> Stringify([type |-> "sources",
                             data |-> << [id |-> 1, document_id |-> 7,
                                          content |-> << "c" >>, similarity |-> 8] >>])
      [] k = 3 -> Stringify(EventPool[5])
      [] OTHER -> Stringify(EventPool[8])

\* lines joined by "\n", the last one followed by `last`
JoinLines(ls, last) ==
    Flat([i \in 1..Len(ls) |-> ls[i] \o (IF i < Len(ls) THEN << NL >> ELSE last)])

\* bodies of at most MaxLines records and at most one malformed line, the last
\* line terminated by "\n" or not
Bodies ==
    { encode(JoinLines([i \in 1..Len(ix) |-> BodyLine(ix[i])], last)) :
        ix \in { s \in SeqsUpTo(0..4, MaxLines + 1) :
                   /\ s # <<>>
                   /\ Cardinality({ i \in 1..Len(s) : s[i] = 0 }) <= 1
                   /\ Cardinality({ i \in 1..Len(s) : s[i] # 0 }) <= MaxLines },
        last \in { <<>>, << NL >> } }

InitBodies ==
    /\ ServerInit
    /\ LedgerIdle
    /\ UploadIdle
    /\ cpc = "idle"
    /\ wire \in Bodies
    /\ pos = 0
    /\ pending = <<>>
    /\ buffer = <<>>
    /\ clientContent = <<>>
    /\ steps = <<>>
    /\ messages = <<>>
    /\ isLoading = FALSE
    /\ input = << " ", "q" >>
    /\ assistantId = 0
    /\ cutSeen = {}

SpecBodies == InitBodies /\ [][NextClient]_vars

\* ------------------------------------------------------------------ the upload queue
\* file selections made at most in one behaviour of SpecUpload
MaxSelections == 2

\* files one selection holds at most
MaxFiles == 2

\* `prev.map((x) => x.id === item.id ? { ...x, status } : x)`, lines 106-112,
\* 136-146 and 162-172; an item's id is its place in the queue
SetStatus(its, id, status) == [its EXCEPT ![id] = status]

\* startUpload from the top of its loop body for the target at place k, up to
\* the fetch it parks at, lines 104-122; past the last target the finally
\* block runs, lines 175-177
LoopFrom(u, k, its) ==
    IF k <= Len(uploads[u].targets)
    THEN /\ items' = SetStatus(its, uploads[u].targets[k], "uploading")
         /\ uploads' = [uploads EXCEPT ![u].at = k]
         /\ UNCHANGED isUploading
    ELSE /\ items' = its
         /\ uploads' = [uploads EXCEPT ![u].running = FALSE]
         /\ isUploading' = FALSE

\* handleSelectFiles with n files, lines 85-98, and the startUpload it calls
\* up to its first fetch, lines 101-122
SelectFiles(n) ==
    /\ Len(uploads) < MaxSelections
    /\ n > 0
    /\ LET first == Len(items) + 1
           next == [i \in 1..n |-> first + i - 1]
       IN /\ items' = SetStatus(items \o [i \in 1..n |-> "pending"], first, "uploading")
          /\ uploads' = Append(uploads, [targets |-> next, at |-> 1, running |-> TRUE])
    /\ isUploading' = TRUE
    /\ UNCHANGED << svars, lvars, cvars >>

\* the fetch of the item a startUpload invocation is at settles: `ok` when the
\* response is read and res.ok holds, lines 119-154; otherwise the inner catch,
\* lines 155-173; then the loop goes on
UploadSettles(u, ok) ==
    /\ u \in 1..Len(uploads)
    /\ uploads[u].running
    /\ LoopFrom(u, uploads[u].at + 1,
                SetStatus(items, uploads[u].targets[uploads[u].at],
                          IF ok THEN "done" ELSE "error"))
    /\ UNCHANGED << svars, lvars, cvars >>

NextUpload ==
    \/ \E n \in 1..MaxFiles : SelectFiles(n)
    \/ \E u \in 1..MaxSelections, ok \in BOOLEAN : UploadSettles(u, ok)

SpecUpload == Init /\ [][NextUpload]_vars

\* ------------------------------------------------------------------ claims
Terminated == pc \in { "done", "start_rejected" }

EventsOfType(t) == { i \in 1..Len(events) : events[i].type = t }

StepEvents(id) ==
    SelectSeq(events, LAMBDA e : e.type = "step" /\ e.data.id = id)

\* the statuses the step events of one id carry, in emission order
StatusesOf(id) ==
    LET evs == StepEvents(id) IN [i \in 1..Len(evs) |-> evs[i].data.status]

RECURSIVE DeltaConcat(_)
DeltaConcat(evs) ==
    IF evs = <<>> THEN <<>>
    ELSE LET rest == DeltaConcat(Tail(evs))
         IN IF Head(evs).type = "delta" THEN Head(evs).data \o rest ELSE rest

InsertCalls == Cardinality({ i \in 1..Len(calls) : calls[i] = "insert" })

LedgerIds == { stepsLog[i].id : i \in 1..Len(stepsLog) }

\* C1: a run that reached pipeline start and whose caller stayed connected
\* has invoked the run-history insert exactly once when it ends, whatever the
\* outcome; and no run invokes it more than once.
C1_InsertExactlyOnce ==
    /\ InsertCalls <= 1
    /\ Len(inserted) = InsertCalls
    /\ (Terminated /\ stream # "cancelled") => InsertCalls = 1

\* a run whose generation failed mid-stream ended with its one insert
C1_Witness ==
    /\ pc = "done"
    /\ InsertCalls = 1
    /\ EventsOfType("delta") # {}
    /\ EventsOfType("error") # {}

\* C2: a run whose caller disconnected after pipeline start has attempted
\* the run-history insert by the time it ends.
C2_PersistAfterDisconnect ==
    (Terminated /\ stream = "cancelled") => InsertCalls >= 1

\* C3: every row handed to insert has matched_count equal to the number of
\* its sources.
C3_MatchedCountIsLenSources ==
    \A i \in 1..Len(inserted) :
        inserted[i].matched_count = Len(inserted[i].sources)

C3_Witness ==
    /\ Len(inserted) = 1
    /\ inserted[1].matched_count >= 2
    /\ Len(inserted[1].sources) >= 2

\* C4: a request whose question is missing or empty gets an error response
\* at once (400, or 500 when the body itself cannot be read): no stream, no
\* stage, no event, no ledger entry, no insert.
C4_MissingQuestionRejected ==
    (pc # "request" /\ IsFalsyText(question)) =>
        /\ \/ pc = "returned_400" /\ response = "400"
           \/ pc = "returned_500" /\ response = "500"
        /\ stream = "none"
        /\ calls = <<>>
        /\ events = <<>>
        /\ stepsLog = <<>>
        /\ inserted = <<>>

C4_Witness == pc = "returned_400" /\ question = <<>>

ZeroMatches == rpcResult \in { "null", "rows" } /\ Len(sourcesForLog) = 0

\* C5: once retrieval has returned zero matches, the stream holds no sources
\* event and no tool or llm step, at most one delta and only the canned one,
\* generation is never invoked, every row handed to insert has the canned
\* answer; and unless the caller has disconnected the stream holds exactly
\* one delta and the row is handed over.
C5_ZeroMatches ==
    ZeroMatches =>
        /\ EventsOfType("sources") = {}
        /\ StepEvents("tool") = <<>> /\ StepEvents("llm") = <<>>
        /\ LedgerIds \cap { "tool", "llm" } = {}
        /\ \A i \in 1..Len(calls) : calls[i] \notin { "tool", "create" }
        /\ fragments = <<>>
        /\ Cardinality(EventsOfType("delta")) <= 1
        /\ \A i \in EventsOfType("delta") : events[i].data = noAns
        /\ \A i \in 1..Len(inserted) : inserted[i].answer = noAns
        /\ stream # "cancelled" =>
              /\ Cardinality(EventsOfType("delta")) = 1
              /\ Len(inserted) = 1

C5_Witness ==
    /\ ZeroMatches
    /\ pc = "done"
    /\ Len(inserted) = 1
    /\ inserted[1].answer = noAns

\* C6: in a run that has handed a row to insert, the concatenation of the
\* delta payloads in emission order is the row's answer, and the answer is
\* null exactly when no delta was emitted.
C6_DeltasConcatToAnswer ==
    \A i \in 1..Len(inserted) :
        IF EventsOfType("delta") = {}
        THEN inserted[i].answer = <<Null>>
        ELSE inserted[i].answer = DeltaConcat(events)

\* generation failed after two fragments, and the row holds both
C6_Witness ==
    /\ Len(inserted) = 1
    /\ Cardinality(EventsOfType("delta")) >= 2
    /\ EventsOfType("error") # {}
    /\ inserted[1].answer = DeltaConcat(events)

ToolStepErrored ==
    \E i \in 1..Len(stepsLog) :
        stepsLog[i].id = "tool" /\ stepsLog[i].status = "error"

\* C7: when the tool step has ended in status error, the generating step has
\* been started.
C7_ToolFailureNeverAborts ==
    ToolStepErrored =>
        /\ "llm" \in LedgerIds
        /\ \E i \in 1..Len(calls) : calls[i] = "create"

\* the llm step's done event is on the stream: a run with at least one match
\* went through every stage
SuccessfulRun ==
    \E i \in 1..Len(events) :
        /\ events[i].type = "step"
        /\ events[i].data.id = "llm"
        /\ events[i].data.status = "done"

StageIds == { "received", "embed", "retrieve", "tool", "llm" }

\* in a history, every upsert that repeats the one before it leaves the
\* result of the one before it
RepeatKeeps(h) ==
    \A i \in 2..Len(h) : h[i].step = h[i - 1].step => h[i].result = h[i - 1].result

\* what the reader loop and the leftover handling make of the whole body
\* delivered as a single chunk, from the state sendMessage starts reading in
SingleChunk ==
    LET fresh == [steps |-> <<>>,
                  messages |-> PatchAssistant(SubSeq(messages, 1, assistantId), assistantId,
                                              [content |-> <<>>, sources |-> <<>>]),
                  content |-> <<>>, buffer |-> <<>>, pending |-> <<>>]
    IN OnClose(OnChunk(fresh, assistantId, wire), assistantId)

\* C8: when the store has read a well-formed body to its end, however it was
\* cut into chunks, its steps, its messages (the answer text and the sources
\* of the assistant message) and its accumulated content are those of the
\* same body delivered as one chunk.
C8_ChunkingIndependent ==
    cpc = "done" =>
        /\ steps = SingleChunk.steps
        /\ messages = SingleChunk.messages
        /\ clientContent = SingleChunk.content
        /\ buffer = <<>>

\* a body of two records was read to its end in chunks that cut a record
\* and a two-byte character, and the answer and a merged step are there
C8_Witness ==
    /\ cpc = "done"
    /\ cutSeen = { "record", "char" }
    /\ clientContent # <<>>
    /\ messages[assistantId].content = clientContent
    /\ steps # <<>>

\* C9: applying the same step update twice in a row yields the ledger that
\* applying it once yields, on the server ledger and on the store's steps.
C9_UpsertIdempotent == RepeatKeeps(ledgerHist) /\ RepeatKeeps(storeHist)

\* an update of an existing entry was repeated on both sides, after another
\* key had been appended
C9_Witness ==
    /\ Len(ledgerHist) = 3 /\ ledgerHist[3].step = ledgerHist[2].step
    /\ Len(ledgerHist[3].result) = 2
    /\ Len(storeHist) = 3 /\ storeHist[3].step = storeHist[2].step
    /\ Len(storeHist[3].result) = 2

\* C10 as stated: in a successful run every stage step is emitted with
\* status pending, then running, then done.
C10_PendingRunningDone ==
    SuccessfulRun =>
        \A id \in StageIds : StatusesOf(id) = << "pending", "running", "done" >>

\* C10 as the code has it: the received step is emitted once, done; each of
\* embed, retrieve, tool and llm is emitted running and then done; no step
\* event carries status pending.
C10_RunningDone ==
    /\ \A i \in EventsOfType("step") : events[i].data.status # "pending"
    /\ SuccessfulRun =>
          /\ StatusesOf("received") = << "done" >>
          /\ \A id \in StageIds \ { "received" } :
                 StatusesOf(id) = << "running", "done" >>

C10_Witness ==
    /\ SuccessfulRun
    /\ pc = "done"
    /\ Len(sourcesForLog) >= 1
    /\ StatusesOf("tool") = << "running", "done" >>

\* C11: an error event is emitted when and only when a stage has failed
\* fatally while the caller was connected; it comes at most once, right after
\* a step event of status error, and it is the last event of the stream; and
\* a run that ends after such a failure has closed the stream.
C11_FatalFailureSurfaced ==
    /\ Cardinality(EventsOfType("error")) <= 1
    /\ \A i \in EventsOfType("error") :
          /\ i = Len(events)
          /\ i > 1
          /\ events[i - 1].type = "step"
          /\ events[i - 1].data.status = "error"
    /\ EventsOfType("error") # {} => failed # "none"
    /\ (failed # "none" /\ stream # "cancelled") => EventsOfType("error") # {}
    /\ (failed # "none" /\ Terminated /\ stream # "cancelled") => stream = "closed"

\* retrieval failed: the retrieve step and the error step are on the stream,
\* then the error event, and the stream is closed
C11_Witness ==
    /\ failed = "retrieve"
    /\ pc = "done"
    /\ stream = "closed"
    /\ Len(events) >= 3
    /\ events[Len(events)].type = "error"
    /\ StatusesOf("retrieve") = << "running", "error" >>
    /\ StatusesOf("error") = << "error" >>

\* C12: whatever the outcome of the insert (success, error result, throw),
\* the step that follows its return emits no event, and closes the stream and
\* ends the run whenever the caller is still connected.
C12_InsertOutcomeUnobservable ==
    [][(pc \in { "insert_try", "insert_catch" } /\ pc' # pc) =>
          /\ events' = events
          /\ stream = "readable" => (stream' = "closed" /\ pc' = "done")]_vars

\* a successful run whose insert threw ended with the llm step's done event
\* as its last event and the stream closed
C12_Witness ==
    /\ insertOutcome = "throw"
    /\ pc = "done"
    /\ stream = "closed"
    /\ Len(inserted) = 1
    /\ SuccessfulRun
    /\ events[Len(events)].type = "step"
    /\ events[Len(events)].data.id = "llm"

\* C13: while the run-history insert is under way the outbound stream has
\* terminated already: controller.close() has been called before the insert
\* starts, or the caller has cancelled.
C13_CloseBeforeInsert ==
    pc \in { "insert_try", "insert_catch" } =>
        /\ stream # "readable"
        /\ \E i \in 1..Len(calls) : calls[i] = "close"

\* retrieval has succeeded with at least one match
SomeMatches == rpcResult = "rows" /\ Len(sourcesForLog) >= 1

\* C14: the stream holds at most one sources event, and only when retrieval
\* has succeeded with at least one match; it carries the matches in the
\* order retrieval returned them, it comes right after the retrieve step's
\* done event and before every tool step event and every delta; and it is
\* there whenever retrieval succeeded with a match and the caller is
\* connected.
C14_SourcesOnceInOrder ==
    /\ Cardinality(EventsOfType("sources")) <= 1
    /\ \A i \in EventsOfType("sources") :
          /\ SomeMatches
          /\ events[i].data = sourcesForLog
          /\ i > 1
          /\ events[i - 1].type = "step"
          /\ events[i - 1].data.id = "retrieve"
          /\ events[i - 1].data.status = "done"
          /\ \A j \in 1..Len(events) :
                (\/ events[j].type = "delta"
                 \/ events[j].type = "step" /\ events[j].data.id \in { "tool", "llm" })
                    => j > i
    /\ (SomeMatches /\ stream # "cancelled") => EventsOfType("sources") # {}

\* two matches were sent in one sources event, and the tool step and a delta
\* followed
C14_Witness ==
    /\ SomeMatches
    /\ Len(sourcesForLog) = 2
    /\ sourcesForLog[1] # sourcesForLog[2]
    /\ Cardinality(EventsOfType("sources")) = 1
    /\ StepEvents("tool") # <<>>
    /\ EventsOfType("delta") # {}

\* the request's member is no number in the range the code accepts
\* (bounds in tenths)
Unusable(p, low, high) == p.kind # "number" \/ p.tenths < low \/ p.tenths > high

\* C15: in a run that reached pipeline start, the topk passed to retrieval
\* and persisted is a whole number with 0 < topk <= 20 and the threshold
\* satisfies 0 <= threshold <= 1, and they are 5 and 0.4 when the request's
\* member is absent, not a number or out of range.
C15_ParamsClamped ==
    response = "stream" =>
        /\ safeTopK \in 1..20
        /\ safeThreshold \in 0..10
        /\ Unusable(topK, 1, 200) => safeTopK = 5
        /\ Unusable(threshold, 0, 10) => safeThreshold = 4
        /\ \A i \in 1..Len(inserted) :
              inserted[i].topk = safeTopK /\ inserted[i].threshold = safeThreshold

\* the generation collaborator has failed, which it can only do after the
\* llm step was sent running
GenerationFailed == failed \in { "create", "chunks" }

\* the status of the llm entry of a ledger is error
LlmMarkedError(log) ==
    \A i \in 1..Len(log) : log[i].id = "llm" => log[i].status = "error"

\* C16: once generation has failed, the llm entry of the ledger has status
\* error, the last llm step event on the stream of a connected caller has
\* status error, and every row handed to insert has the llm step with status
\* error and, as its answer, the fragments emitted before the failure.
C16_GeneratingStepMarkedError ==
    GenerationFailed =>
        /\ LlmMarkedError(stepsLog)
        /\ stream # "cancelled" =>
              /\ StatusesOf("llm") # <<>>
              /\ StatusesOf("llm")[Len(StatusesOf("llm"))] = "error"
        /\ \A i \in 1..Len(inserted) :
              /\ LlmMarkedError(inserted[i].steps)
              /\ inserted[i].answer =
                     IF EventsOfType("delta") = {} THEN <<Null>> ELSE DeltaConcat(events)

\* C17: from the moment a row has been handed to insert, its steps are the
\* ledger: no upsert changes the ledger afterwards, so the steps of the row
\* are the ledger at the end of the run.
C17_RecordStepsAreLedger ==
    \A i \in 1..Len(inserted) : inserted[i].steps = JsonSteps(stepsLog)

\* the step event at an index below i that has the id and one of the statuses
Before(i, id, statuses) ==
    \E j \in 1..(i - 1) :
        /\ events[j].type = "step"
        /\ events[j].data.id = id
        /\ events[j].data.status \in statuses

\* the status the last step event of id has among the first k events
LastStatus(id, k) ==
    LET S == { i \in 1..k : events[i].type = "step" /\ events[i].data.id = id }
    IN IF S = {} THEN "none"
       ELSE events[CHOOSE i \in S : \A j \in S : j <= i].data.status

StageCalls == << "embed", "rpc", "tool", "create" >>

\* C18: on the stream the embed step is done before the retrieve step is
\* running, the retrieve step is done before the tool step is running, and
\* the tool step is done or error before the llm step is running; after
\* every event at most one step is running; the same holds of the ledger;
\* and the collaborators are called one after the other in stage order.
C18_StagesInOrder ==
    /\ \A i \in EventsOfType("step") :
          events[i].data.status = "running" =>
              /\ events[i].data.id = "retrieve" => Before(i, "embed", { "done" })
              /\ events[i].data.id = "tool" => Before(i, "retrieve", { "done" })
              /\ events[i].data.id = "llm" => Before(i, "tool", { "done", "error" })
    /\ \A k \in 1..Len(events) :
          Cardinality({ id \in StageIds : LastStatus(id, k) = "running" }) <= 1
    /\ Cardinality({ i \in 1..Len(stepsLog) : stepsLog[i].status = "running" }) <= 1
    /\ \A i \in 1..Len(stepsLog) :
          /\ stepsLog[i].id = "retrieve" => Before(Len(events) + 1, "embed", { "done" })
          /\ stepsLog[i].id = "llm" =>
                \E j \in 1..Len(stepsLog) :
                    stepsLog[j].id = "tool" /\ stepsLog[j].status \in { "done", "error" }
    /\ LET made == SelectSeq(calls, LAMBDA c : c \in { "embed", "rpc", "tool", "create" })
       IN made = SubSeq(StageCalls, 1, Len(made))

\* the llm step is running after the three stages before it have ended
C18_Witness ==
    /\ pc = "chunk_wait"
    /\ LastStatus("embed", Len(events)) = "done"
    /\ LastStatus("retrieve", Len(events)) = "done"
    /\ LastStatus("tool", Len(events)) = "done"
    /\ LastStatus("llm", Len(events)) = "running"
    /\ calls = StageCalls

\* no stage after embedding has left a trace: no step of it in the ledger
\* or on the stream, no sources, no delta, no call of its collaborator
NothingAfterEmbed ==
    /\ LedgerIds \cap { "retrieve", "tool", "llm" } = {}
    /\ \A id \in { "retrieve", "tool", "llm" } : StepEvents(id) = <<>>
    /\ EventsOfType("sources") = {} /\ EventsOfType("delta") = {}
    /\ \A i \in 1..Len(calls) : calls[i] \notin { "rpc", "tool", "create" }

\* the one row handed to insert has no answer, no match and no source
EmptyRecordPersisted ==
    /\ Len(inserted) = 1
    /\ inserted[1].answer = <<Null>>
    /\ inserted[1].matched_count = 0
    /\ inserted[1].sources = <<>>

\* C19: once the embedding collaborator has failed, no later stage has left
\* a trace, and a row with answer null, matched_count 0 and no sources has
\* been handed to insert.
C19_EmbedFailure == failed = "embed" => (NothingAfterEmbed /\ EmptyRecordPersisted)

\* the keys of a ledger, in its order
Keys(log) == [i \in 1..Len(log) |-> log[i].id]

\* the keys of the first n upserts of a history, each once, in the order in
\* which they were first upserted
RECURSIVE FirstUpserted(_, _)
FirstUpserted(h, n) ==
    IF n = 0 THEN <<>>
    ELSE LET before == FirstUpserted(h, n - 1)
         IN IF \E i \in 1..Len(before) : before[i] = h[n].step.id
            THEN before
            ELSE Append(before, h[n].step.id)

\* after every upsert of a history the ledger has each key once, has lost no
\* entry, and has its keys in the order of their first upsert
KeepsKeysInOrder(h) ==
    \A n \in 1..Len(h) :
        /\ \A i, j \in 1..Len(h[n].result) :
              h[n].result[i].id = h[n].result[j].id => i = j
        /\ n > 1 => /\ Len(h[n].result) >= Len(h[n - 1].result)
                    /\ SubSeq(Keys(h[n].result), 1, Len(h[n - 1].result))
                           = Keys(h[n - 1].result)
        /\ Keys(h[n].result) = FirstUpserted(h, n)

\* C20: after any sequence of upserts the ledger, on the server and in the
\* store, holds at most one entry per key, no entry has been removed, and
\* the entries are in the order in which their keys were first upserted.
C20_LedgerKeepsOrder == KeepsKeysInOrder(ledgerHist) /\ KeepsKeysInOrder(storeHist)

\* the first of two keys was updated after the second had been appended, and
\* it is still first, on both sides
C20_Witness ==
    /\ Len(ledgerHist) = 3 /\ Len(storeHist) = 3
    /\ ledgerHist[1].step.id # ledgerHist[2].step.id
    /\ ledgerHist[3].step.id = ledgerHist[1].step.id
    /\ ledgerHist[3].step # ledgerHist[1].step
    /\ Keys(stepsLog) = << ledgerHist[1].step.id, ledgerHist[2].step.id >>
    /\ Keys(steps) = Keys(stepsLog)

\* an update of a history that names a key already in the ledger and carries
\* no detail leaves the detail that the entry had
KeepsDetail(h) ==
    \A n \in 2..Len(h) :
        LET prev == h[n - 1].result
            idx == FindIndex(prev, h[n].step.id)
        IN (idx # 0 /\ h[n].step.detail = <<Undef>>)
               => h[n].result[idx].detail = prev[idx].detail

\* C21: upserting an existing key merges fields, and a step update recorded
\* without a detail (sendStep with id, title and status only) leaves the
\* detail of the prior entry in the server ledger.
C21_UpdateWithoutDetailKeepsDetail == KeepsDetail(ledgerHist)

\* the store of a sendMessage whose fetch has just resolved: the user's and
\* the assistant's message, no steps, nothing read
FreshStore ==
    [steps |-> <<>>,
     messages |-> << [id |-> 1, role |-> "user", content |-> << "q" >>],
                     [id |-> 2, role |-> "assistant", content |-> <<>>,
                      sources |-> <<>>] >>,
     content |-> <<>>, buffer |-> <<>>, pending |-> <<>>]

\* the store after it has read the body made of the events evs to its end
Consumed(evs) == OnClose(OnChunk(FreshStore, 2, WireOf(evs)), 2)

\* C22: once a run has persisted its record, the step list the client has
\* rebuilt from the run's events equals the steps of the record as
\* serialised: same keys, order, status, title and detail.
C22_ClientStepsArePersistedSteps ==
    \A i \in 1..Len(inserted) : Consumed(events).steps = inserted[i].steps

\* the store after it has read the body w to its end in one chunk
ReadWhole(w) == OnClose(OnChunk(FreshStore, 2, w), 2)

\* the text of the body
BodyText == decodeAll(wire).text

\* the last line of the body has no "\n" after it and is a JSON record
LeftoverIsRecord ==
    LET lines == Split(BodyText)
    IN Parse(lines[Len(lines)]).ok

\* C23: at transport close, a carry-over that is a complete JSON record is
\* applied to the steps and the messages as if "\n" had followed it,
\* whatever the record's type.
C23_LeftoverAppliedAsRecord ==
    (cpc = "done" /\ LeftoverIsRecord) =>
        /\ steps = ReadWhole(wire \o << NL >>).steps
        /\ messages = ReadWhole(wire \o << NL >>).messages

\* a line that is not blank and that JSON.parse throws on
IsMalformed(line) == ~IsBlank(line) /\ ~Parse(line).ok

\* the text t without its malformed lines, each removed with the "\n" that
\* ends it
RECURSIVE WithoutMalformed(_)
WithoutMalformed(t) ==
    IF \E i \in 1..Len(t) : t[i] = NL
    THEN LET i == CHOOSE k \in 1..Len(t) :
                      t[k] = NL /\ \A j \in 1..(k - 1) : t[j] # NL
             line == SubSeq(t, 1, i - 1)
         IN (IF IsMalformed(line) THEN <<>> ELSE SubSeq(t, 1, i))
                \o WithoutMalformed(SubSeq(t, i + 1, Len(t)))
    ELSE IF IsMalformed(t) THEN <<>> ELSE t

HasMalformed == \E i \in 1..Len(Split(BodyText)) : IsMalformed(Split(BodyText)[i])

\* C24: when the store has read to its end a body that holds a malformed
\* line, however the body was cut into chunks, the read has ended normally
\* and the steps and the messages are those of the same body without that
\* line; no step of the read puts the store on its failure path because of
\* the line.
C24_MalformedLineSkipped ==
    (cpc = "done" /\ HasMalformed) =>
        /\ steps = ReadWhole(encode(WithoutMalformed(BodyText))).steps
        /\ messages = ReadWhole(encode(WithoutMalformed(BodyText))).messages

\* a body with a step record before the malformed line and a delta record
\* after it was read to its end, and both records were applied
C24_Witness ==
    /\ cpc = "done"
    /\ LET lines == Split(BodyText)
       IN /\ Len(lines) = 4
          /\ IsMalformed(lines[2])
          /\ Parse(lines[1]).ok /\ Parse(lines[1]).type = "step"
          /\ Parse(lines[3]).ok /\ Parse(lines[3]).type = "delta"
    /\ Len(steps) = 1
    /\ messages[assistantId].content = << "a" >>
    /\ Len(messages) = 2

IsPrefix(a, b) == Len(a) <= Len(b) /\ SubSeq(b, 1, Len(a)) = a

\* the chunk read by this step is exactly one error record, read with
\* nothing carried over
ReadsErrorRecord ==
    /\ cpc = "reading" /\ buffer = <<>> /\ pending = <<>>
    /\ pos' > pos
    /\ SubSeq(wire, pos + 1, pos') = Frame(EventPool[8])

\* the read of the body fails in this step
StreamFails == cpc = "reading" /\ cpc' = "failed"

\* C25: during one sendMessage the answer text of the in-progress message
\* only grows at its end; a step that reads an error record changes neither
\* the steps nor the messages and leaves the store reading; a failure of the
\* stream leaves the steps and the in-progress message as they were.
C25_AnswerNeverRetracted ==
    [][ /\ (assistantId # 0 /\ assistantId' = assistantId) =>
              IsPrefix(messages[assistantId].content, messages'[assistantId].content)
        /\ ReadsErrorRecord =>
              (steps' = steps /\ messages' = messages /\ cpc' = "reading")
        /\ StreamFails =>
              (steps' = steps /\ messages'[assistantId] = messages[assistantId])
      ]_vars

\* a body of a delta and an error record was read, and then the stream
\* failed: the answer text read before is still in the in-progress message
C25_Witness ==
    /\ cpc = "failed"
    /\ wire = WireOf(<< EventPool[5], EventPool[8] >>)
    /\ pos = Len(wire)
    /\ messages[assistantId].content = << "a" >>
    /\ Len(messages) = 3

\* the payloads of the delta events on the stream, in emission order
DeltaPayloads ==
    LET d == SelectSeq(events, LAMBDA e : e.type = "delta")
    IN [i \in 1..Len(d) |-> d[i].data]

\* the chunks of the generation stream that carry text
TextFragments == SelectSeq(fragments, LAMBDA f : ~IsFalsyText(f))

\* C26 as stated: in a run that generates and whose caller is connected, the
\* payloads of the delta events are the contents of the chunks the
\* generation stream has yielded, one event per chunk.
C26_OneDeltaPerFragment ==
    (~ZeroMatches /\ stream # "cancelled") => DeltaPayloads = fragments

\* C26 as the code has it: the payloads of the delta events are the contents
\* of the chunks that carry text, one event per such chunk, each payload
\* that chunk's text alone; a chunk whose content is empty or absent produces
\* no delta event. (After a disconnect the events are a prefix of them.)
C26_OneDeltaPerTextFragment ==
    ~ZeroMatches =>
        /\ IsPrefix(DeltaPayloads, TextFragments)
        /\ stream # "cancelled" => DeltaPayloads = TextFragments

\* two chunks with text and one delta event for each
C26_Witness ==
    /\ stream = "closed"
    /\ Len(fragments) = 2
    /\ TextFragments = fragments
    /\ DeltaPayloads = fragments
    /\ fragments[1] = << "a" >>

\* a sendMessage invocation is between its line 72 and its finally block
InProgress == cpc \in { "fetching", "reading" }

\* this step is a sendMessage that got past line 50: it appends the user's
\* and the assistant's message
StartsRequest == Len(messages') = Len(messages) + 2

\* C28: isLoading is true exactly while a sendMessage invocation is in
\* progress, so it is false after every exit (normal end, fetch failure,
\* stream failure); and a sendMessage invoked while isLoading is true or
\* with blank input starts nothing: a request is only started by a step
\* taken with isLoading false and an input that is not blank.
C28_LoadingGuardsSend ==
    /\ [](isLoading <=> InProgress)
    /\ [][ StartsRequest => (~isLoading /\ Trim(input) # <<>>) ]_vars

\* the user has typed a new question while the first request is still being
\* read: sendMessage would return at once
C28_Witness ==
    /\ cpc = "reading" /\ isLoading
    /\ Trim(input) # <<>>
    /\ Sends = 1
    /\ Len(messages) = 2

\* C29: when every collaborator call returns or fails in the end, a run
\* that has opened the outbound stream does not leave it open for ever: the
\* run closes it, on the success, the zero-match and the error path, unless
\* the caller has cancelled it before.
C29_StreamEventuallyClosed ==
    (stream = "readable") ~> (stream = "closed" \/ stream = "cancelled")

\* the run has closed the stream on its error path, after the record of the
\* failed run was handed to insert
C29_Witness ==
    /\ pc = "done"
    /\ stream = "closed"
    /\ failed = "chunks"
    /\ Len(inserted) = 1

\* the items of the queue in one of the given statuses
ItemsIn(statuses) == { i \in 1..Len(items) : items[i] \in statuses }

\* C30: at most one item of the upload queue is in status uploading at any
\* time, and isUploading is true whenever some item is pending or uploading.
C30_UploadsSerially ==
    /\ Cardinality(ItemsIn({ "uploading" })) <= 1
    /\ ItemsIn({ "pending", "uploading" }) # {} => isUploading

====
